---- MODULE Spec2Model ----
(***************************************************************************)
(* State-machine model of scrape.py (Telegram media scraper): the          *)
(* scan -> classify -> fetch -> checkpoint pipeline of                      *)
(* download_reacted_media, with the persisted log file, its .bak sibling   *)
(* and the download directories as the environment.                        *)
(*                                                                         *)
(* One behaviour is a sequence of processes (runs) started with the same   *)
(* command line over the same channel content.  Runs are started without   *)
(* --clean.                                                                *)
(***************************************************************************)
EXTENDS Integers, Sequences, FiniteSets, TLC

\* ------------------------------------------------------------------ bounds
MaxId == 2            \* message ids of the channel are 1..MaxId
MaxBurst == 6         \* ids of the large uniform channels are 1..MaxBurst
MaxRuns == 2          \* processes started one after the other
MaxRetries == 2       \* value given to --max-retries
MaxFaults == 1        \* things that go wrong in a behaviour: an entry whose
                      \* fetch or lookup fails, a process stopped in a write
MaxLimit == 1         \* values given to --limit are 1..MaxLimit

\* ------------------------------------------------------- program constants
CHECKPOINT_INTERVAL == 10
MAX_CONCURRENT_DOWNLOADS == 5

\* Python's None, where an integer or a time stamp is expected.
None == -1
\* id of the user the --user-id/--username option resolves to.
TargetUserId == 7
\* size in bytes of a completely written media file, and of a truncated one.
FullSize == 2
ShortSize == 1
\* e.seconds of a FloodWaitError, in seconds.
FloodWait == 2

VARIABLES
    args,               \* parsed command line (fixed for the behaviour)
    source,             \* the channel: message id -> remote message
    logFile,            \* content of download_log.json
    bakFile,            \* content of download_log.json.bak
    disk,               \* download directories: path -> size (0: no file)
    run,                \* number of the current process
    pc,                 \* position of the driver coroutine
    log_data,           \* the LogState held in memory
    qualified,          \* qualified['all_reactions'], ['user_interactions']
    cursor,             \* id of the last message iter_messages yielded
    has_backup,         \* save_checkpoint.has_backup is set
    idx,                \* index of the entry the download loop is at
    attempt,            \* attempt number inside download_media_with_retry
    inFlight,           \* ids inside the gated section of the semaphore
    successful_downloads,
    failed_downloads,
    attempted_downloads,
    sleeping,           \* seconds asyncio.sleep was called with
    now,                \* seconds slept in the call of download_media_with_retry
                        \* made last (a stopwatch started with the call)
    \* ---- observers (not read by the program)
    tries,              \* client.download_media calls of this run, per id
    classified,         \* ids classified from the message source by this run
    writes,             \* writes of the log file by this run
    bakWrites,          \* writes of the .bak file by this run
    startLog,           \* content of the log file when the process started
    committed,          \* content of the log file after its last whole write
    prevClean,          \* the previous run ended with every fetch succeeded
    faults,             \* things that went wrong so far
    faulted,            \* how the fetch in progress has gone wrong ("no": not)
    journal,            \* what became of each entry the loops have handled
    lastError,          \* error recorded for the entry handled last
    lookups,            \* client.get_messages calls issued by this run
    min_id,             \* min_id given to client.iter_messages (None: no call)
    notBefore,          \* end of the wait the last FloodWaitError asked for
    raised,             \* exception that left download_reacted_media
    startDisk           \* the download directories when the process started

vars == << args, source, logFile, bakFile, disk, run, pc, log_data, qualified,
           cursor, has_backup, idx, attempt, inFlight, successful_downloads,
           failed_downloads, attempted_downloads, tries, classified, writes,
           bakWrites, startLog, committed, prevClean, faults, faulted,
           sleeping, now, journal, lookups, min_id, notBefore, raised,
           startDisk, lastError >>

\* ----------------------------------------------------------------- helpers
Max(a, b) == IF a >= b THEN a ELSE b

RECURSIVE SetMax(_)
SetMax(S) == IF S = {} THEN 0
             ELSE LET x == CHOOSE y \in S : TRUE IN Max(x, SetMax(S \ {x}))

RECURSIVE SetMin(_)
SetMin(S) == LET x == CHOOSE y \in S : TRUE
             IN IF S = {x} THEN x
                ELSE LET m == SetMin(S \ {x}) IN IF x <= m THEN x ELSE m

\* The ids of S in ascending order (the insertion order of the log's dict).
RECURSIVE Ascending(_)
Ascending(S) == IF S = {} THEN << >>
                ELSE LET m == SetMin(S) IN << m >> \o Ascending(S \ {m})

RECURSIVE SumSeq(_)
SumSeq(s) == IF s = << >> THEN 0 ELSE Head(s) + SumSeq(Tail(s))

Range(s) == { s[k] : k \in 1..Len(s) }

\* The sum of the values of a function to the naturals.
RECURSIVE SumFn(_)
SumFn(f) == IF DOMAIN f = {} THEN 0
            ELSE LET x == CHOOSE y \in DOMAIN f : TRUE
                 IN f[x] + SumFn([ y \in DOMAIN f \ {x} |-> f[y] ])

\* ------------------------------------------------------ the remote messages
\* A remote message: photo (media is a MessageMediaPhoto), reacted
\* (message.reactions is a truthy object), results (the counts of
\* reactions.results), reply_to_target (it replies to a message of the target
\* user), reactor (the target user is among the recent_reactors of a reaction),
\* minute (message.date, which the scan reads to the minute).
\* The scan reads reply_to_target only under --replied-to and reactor only
\* under --reacted-by, so one kind of message serves both filters.
Plain     == [ photo |-> TRUE, reacted |-> TRUE, results |-> << 3 >>,
               reply_to_target |-> FALSE, reactor |-> FALSE, minute |-> 1 ]
Targeted  == [ photo |-> TRUE, reacted |-> TRUE, results |-> << 1, 2 >>,
               reply_to_target |-> TRUE, reactor |-> TRUE, minute |-> 1 ]
Unreacted == [ photo |-> TRUE, reacted |-> FALSE, results |-> << >>,
               reply_to_target |-> TRUE, reactor |-> FALSE, minute |-> 1 ]
\* a reactions object that lists no reaction
Bare      == [ photo |-> TRUE, reacted |-> TRUE, results |-> << >>,
               reply_to_target |-> TRUE, reactor |-> FALSE, minute |-> 1 ]

Kinds == { Plain, Targeted, Unreacted }

\* The messages of f, the message of id j posted in minute j.
Spaced(f) == [ j \in DOMAIN f |-> [ f[j] EXCEPT !.minute = j ] ]

\* ---------------------------------------------------------------- LogState
EmptyLog == [ last_scan_time |-> None, messages |-> << >>,
              last_successful_id |-> None ]

\* get_qualified_messages, lines 321-322: the message is classified at all.
Qualifies(m) == m.reacted /\ m.photo

\* msg_info with the record marked as downloaded from the start.
msg_info_downloaded(id, m) ==
    [ id |-> id,
      reply_user_id |-> IF m.reply_to_target THEN TargetUserId ELSE None,
      has_reactions |-> m.results # << >>,
      total_reactions |-> SumSeq(m.results),
      reactions |-> m.results,
      base_filename |-> << m.minute, m.reply_to_target, SumSeq(m.results) >>,
      downloaded |-> TRUE ]

\* msg_info with has_reactions set for every record.
msg_info_all_reacted(id, m) ==
    [ id |-> id,
      reply_user_id |-> IF m.reply_to_target THEN TargetUserId ELSE None,
      has_reactions |-> TRUE,
      total_reactions |-> SumSeq(m.results),
      reactions |-> m.results,
      base_filename |-> << m.minute, m.reply_to_target, SumSeq(m.results) >>,
      downloaded |-> FALSE ]

\* get_qualified_messages, lines 323-384: the msg_info built for a message.
\* base_filename is built from the minute of the message, the reply name, the
\* reaction total and the reply text.
msg_info(id, m) ==
    LET total == SumSeq(m.results) IN
    [ id |-> id,
      reply_user_id |-> IF m.reply_to_target THEN TargetUserId ELSE None,
      has_reactions |-> m.results # << >>,
      total_reactions |-> total,
      reactions |-> m.results,
      base_filename |-> << m.minute, m.reply_to_target, total >>,
      downloaded |-> FALSE ]

\* get_qualified_messages, lines 389-405: the user-specific conditions of a
\* message read from the source.
is_user_interaction(m) ==
    \/ args.filter = "replied_to" /\ m.reply_to_target
    \/ args.filter = "reacted_by" /\ m.reactor

\* get_qualified_messages, lines 302-310: the same conditions evaluated on a
\* record of the log; its reactions are dicts, which carry no recent_reactors.
cached_user_interaction(msg) ==
    args.filter = "replied_to" /\ msg.reply_user_id = TargetUserId

\* save_checkpoint, lines 204-205.
downloaded_count(ld) ==
    Cardinality({ k \in DOMAIN ld.messages :
                     "downloaded" \in DOMAIN ld.messages[k]
                     /\ ld.messages[k].downloaded })

\* ------------------------------------------------------------------- files
Absent       == [ kind |-> "absent",     data |-> EmptyLog ]
Garbage      == [ kind |-> "garbage",    data |-> EmptyLog ]  \* not JSON
\* JSON that is no object, or an object without 'messages'
WrongShape   == [ kind |-> "shape",      data |-> EmptyLog ]
StateFile(ld) == [ kind |-> "state", data |-> ld ]
\* an object whose 'messages' holds a record without the required fields
BadRecords   == StateFile([ last_scan_time |-> None,
                            messages |-> (1 :> [ id |-> 1 ]),
                            last_successful_id |-> None ])

\* load_log_file, lines 184-199.
load_log_file(f) == IF f.kind = "state" THEN f.data ELSE EmptyLog

\* The log a previous version of the pipeline left after scanning the ids
\* 1..k of src and downloading the ids of D.
PriorLog(src, k, D) ==
    LET ids == { j \in 1..k : j \in DOMAIN src /\ Qualifies(src[j]) } IN
    [ last_scan_time |-> 0,
      messages |-> [ j \in ids |->
                       [ msg_info(j, src[j]) EXCEPT !.downloaded = j \in D ] ],
      last_successful_id |-> IF D = {} THEN None ELSE SetMax(D) ]

AllReactionsDir == "all_reactions"
UserDir == "user"
Path(dir, msg) == << dir, msg.base_filename >>

\* ------------------------------------------------------------------- inputs
\* filter "none" is a command line without --user-id/--username; the other
\* two name a user, who exists on the server unless user_known is FALSE.
\* limit and resume_from are 0 when the option is not given.
CategoryArgs == [ force_redownload : BOOLEAN,
                  skip_all_reactions : BOOLEAN,
                  filter : { "none", "replied_to", "reacted_by" },
                  max_retries : { MaxRetries },
                  user_known : { TRUE },
                  limit : { 0 },
                  dry_run : { FALSE },
                  resume_from : { 0 },
                  verify_only : { FALSE },
                  checkpoint_interval : { 0 } ]

DefaultArgs == [ force_redownload |-> FALSE, skip_all_reactions |-> FALSE,
                 filter |-> "replied_to", max_retries |-> MaxRetries,
                 user_known |-> TRUE, limit |-> 0, dry_run |-> FALSE,
                 resume_from |-> 0, verify_only |-> FALSE,
                 checkpoint_interval |-> 0 ]

\* The command line without any option.
PlainArgs == [ DefaultArgs EXCEPT !.filter = "none" ]

\* The category options in every combination, each of --limit, --dry-run,
\* --verify-only and an unknown user on a command line that names a user with
\* --replied-to, and each of --resume-from and --checkpoint-interval on the
\* plain command line.  limit, resume_from and checkpoint_interval are 0 when
\* the option is absent.
ArgSets == CategoryArgs
           \cup { [ DefaultArgs EXCEPT !.limit = n ] : n \in 1..MaxLimit }
           \cup { [ DefaultArgs EXCEPT !.dry_run = TRUE ],
                  [ DefaultArgs EXCEPT !.dry_run = TRUE,
                                       !.force_redownload = TRUE ],
                  [ DefaultArgs EXCEPT !.user_known = FALSE ],
                  [ DefaultArgs EXCEPT !.verify_only = TRUE ],
                  [ PlainArgs EXCEPT !.resume_from = 1 ],
                  [ PlainArgs EXCEPT !.checkpoint_interval = 1 ] }

\* Small channels of every mix of message kinds, and large uniform ones.
RichSources  == { Spaced(f) : f \in [ 1..MaxId -> Kinds ] }
BurstSources == { Spaced([ j \in 1..MaxBurst |-> Plain ]) }
\* Channels with messages whose reactions object lists no reaction.
BareSources  == { Spaced(f) : f \in [ 1..MaxId -> { Plain, Bare } ] }
                \ RichSources
\* A channel whose messages were all posted within one minute.
SameMinuteSources == { [ j \in 1..MaxId |-> Plain ] }

\* The sets of records a log can hold as downloaded.  With --force-redownload
\* the flag of a record decides nothing (line 294): those command lines get
\* the logs in which none or all of the records are marked.
Marked(a, ids) == IF a.force_redownload THEN { {}, ids } ELSE SUBSET ids

\* The log files a process can find: none, unreadable ones, and the log of an
\* earlier scan of the first k messages of which the ids of D were downloaded.
PriorLogs(src, a) ==
    UNION { { StateFile(PriorLog(src, k, D)) :
                D \in Marked(a, { j \in 1..k : Qualifies(src[j]) }) } :
            k \in 0..MaxId }

\* The channels a command line is run over.  Without a user filter the scan
\* reads nothing of a message that tells a Targeted one from a Plain one, so
\* the command lines without a filter get the channels without Targeted
\* messages, and those made of category options the large ones as well.  A
\* message without reactions is passed over before any filter is looked at:
\* the command lines with --reacted-by get the channels without such
\* messages.  The default command lines get the channels of special messages.
Sources(a) ==
    IF a.filter = "none"
    THEN { Spaced(f) : f \in [ 1..MaxId -> { Plain, Unreacted } ] }
         \cup (IF a \in CategoryArgs THEN BurstSources ELSE {})
         \cup (IF a = PlainArgs THEN SameMinuteSources ELSE {})
    ELSE IF a.filter = "reacted_by"
    THEN { Spaced(f) : f \in [ 1..MaxId -> { Plain, Targeted } ] }
    ELSE RichSources
         \cup (IF a = DefaultArgs THEN BareSources ELSE {})

\* load_log_file reads no option: the files it cannot read are tried with the
\* plain command line.
InitialLogs(src, a) ==
    IF src \in BurstSources THEN { Absent }
    ELSE { Absent, BadRecords } \cup PriorLogs(src, a)
         \cup (IF a = PlainArgs THEN { Garbage, WrongShape } ELSE {})

Paths(src) == { AllReactionsDir, UserDir }
              \X { msg_info(j, src[j]).base_filename : j \in DOMAIN src }

\* The files of the records the log holds as downloaded are in place.
InitialDisk(src, f) ==
    [ p \in Paths(src) |->
        IF /\ p[1] = AllReactionsDir
           /\ \E j \in DOMAIN f.data.messages :
                 /\ "downloaded" \in DOMAIN f.data.messages[j]
                 /\ f.data.messages[j].downloaded
                 /\ f.data.messages[j].base_filename = p[2]
        THEN FullSize ELSE 0 ]

NoQualified == [ all_reactions |-> << >>, user_interactions |-> << >> ]

Init ==
    /\ args \in ArgSets
    /\ source \in Sources(args)
    /\ logFile \in InitialLogs(source, args)
    /\ bakFile = Absent
    /\ disk = InitialDisk(source, logFile)
    /\ run = 1
    /\ pc = "start"
    /\ log_data = EmptyLog
    /\ qualified = NoQualified
    /\ cursor = 0
    /\ has_backup = FALSE
    /\ idx = 0
    /\ attempt = 0
    /\ inFlight = {}
    /\ successful_downloads = << >>
    /\ failed_downloads = << >>
    /\ attempted_downloads = << >>
    /\ tries = [ j \in DOMAIN source |-> 0 ]
    /\ classified = {}
    /\ writes = << >>
    /\ bakWrites = 0
    /\ startLog = logFile
    /\ committed = logFile
    /\ prevClean = FALSE
    /\ faults = 0
    /\ faulted = "no"
    /\ sleeping = 0
    /\ now = 0
    /\ journal = << >>
    /\ lookups = 0
    /\ min_id = None
    /\ notBefore = 0
    /\ raised = "none"
    /\ startDisk = disk
    /\ lastError = "none"

\* ------------------------------------------------------------ the scan
\* msg.get('downloaded', False)
get_downloaded(msg) == "downloaded" \in DOMAIN msg /\ msg.downloaded

\* cached_skipped without the test of --force-redownload.
cached_skipped_always(msg) == get_downloaded(msg)

\* get_qualified_messages, lines 295-296: the record is passed over.
cached_skipped(msg) == get_downloaded(msg) /\ ~args.force_redownload

\* get_qualified_messages, line 299: msg['has_reactions'] raises KeyError.
cached_raises(ld) ==
    \E k \in DOMAIN ld.messages :
        /\ ~cached_skipped(ld.messages[k])
        /\ "has_reactions" \notin DOMAIN ld.messages[k]

\* latest_msg_id left at its initial value.
latest_msg_id_zero(ld) == 0

\* get_qualified_messages, lines 289-292.
latest_msg_id(ld) == SetMax(DOMAIN ld.messages)

\* lines 277 and 542: the command line names a user.
user_given == args.filter # "none"

\* lines 279-281 and 544-546: client.get_entity returns the user.
user_resolves == args.user_known

\* get_qualified_messages, lines 270-313: load the log, resolve the user and
\* re-qualify the records the log holds.  When the user cannot be resolved
\* the function returns what it has at that point (line 286).
LoadAndRequalify ==
    /\ pc = "start"
    /\ LET ld == load_log_file(logFile)
           open == { k \in DOMAIN ld.messages : ~cached_skipped(ld.messages[k]) }
       IN /\ log_data' = ld
          /\ IF user_given /\ ~user_resolves
             THEN /\ pc' = "scanned"
                  /\ UNCHANGED << qualified, cursor, min_id, raised >>
             ELSE IF cached_raises(ld)
             THEN /\ pc' = "aborted"
                  /\ raised' = "KeyError"
                  /\ UNCHANGED << qualified, cursor, min_id >>
             ELSE /\ pc' = "scan"
                  /\ cursor' = latest_msg_id(ld)
                  /\ min_id' = latest_msg_id(ld)
                  /\ UNCHANGED raised
                  /\ qualified' =
                       [ all_reactions |->
                           Ascending({ k \in open :
                               /\ ld.messages[k].has_reactions
                               /\ ~args.skip_all_reactions }),
                         user_interactions |->
                           Ascending({ k \in open :
                               cached_user_interaction(ld.messages[k]) }) ]
    /\ UNCHANGED << args, source, logFile, bakFile, disk, run, has_backup, idx,
                    attempt, inFlight, successful_downloads, failed_downloads,
                    attempted_downloads, tries, classified, writes,
                    bakWrites, startLog, committed, prevClean, faults, faulted,
                    sleeping, now, journal, lookups, notBefore, startDisk,
                    lastError >>

\* Remaining with min_id taken as the first id to yield.
RemainingInclusive ==
    { j \in DOMAIN source : j >= cursor /\ j \notin classified }

\* client.iter_messages(min_id=..., reverse=True): the ids still to come.
Remaining == { j \in DOMAIN source : j > cursor }

\* get_qualified_messages, lines 423-426: the --limit test, made after a
\* message was classified.
limit_reached(q) ==
    /\ args.limit > 0
    /\ Len(q.all_reactions) + Len(q.user_interactions) >= args.limit

\* get_qualified_messages, lines 315-426: one message of the source.
ScanMessage ==
    /\ pc = "scan"
    /\ Remaining # {}
    /\ LET id == SetMin(Remaining)
           m == source[id]
           info == msg_info(id, m)
       IN /\ cursor' = id
          /\ classified' = classified \cup { id }
          /\ IF Qualifies(m)
             THEN /\ log_data' = [ log_data EXCEPT !.messages =
                         [ k \in DOMAIN log_data.messages \cup { id } |->
                             IF k = id THEN info ELSE log_data.messages[k] ] ]
                  /\ qualified' =
                       [ all_reactions |->
                           IF info.has_reactions /\ ~args.skip_all_reactions
                           THEN Append(qualified.all_reactions, id)
                           ELSE qualified.all_reactions,
                         user_interactions |->
                           IF is_user_interaction(m)
                           THEN Append(qualified.user_interactions, id)
                           ELSE qualified.user_interactions ]
                  /\ pc' = IF limit_reached(qualified')
                           THEN "scan_end" ELSE "scan"
             ELSE UNCHANGED << log_data, qualified, pc >>
    /\ UNCHANGED << args, source, logFile, bakFile, disk, run, has_backup,
                    idx, attempt, inFlight, successful_downloads,
                    failed_downloads, attempted_downloads, tries, writes,
                    bakWrites, startLog, committed, prevClean, faults, faulted,
                    sleeping, now, journal, lookups, min_id, notBefore, raised,
                    startDisk,
                    lastError >>

\* --------------------------------------------------------- the log file
\* save_checkpoint, line 211: the log is written by this call.
should_save(ld, force, is_final) ==
    force \/ is_final \/ (downloaded_count(ld) % CHECKPOINT_INTERVAL = 0)

\* needs_backup without the has_backup attribute: a backup at every save.
needs_backup_every_save == TRUE

\* save_checkpoint, line 213: the backup is still to be made.
needs_backup == ~has_backup

\* save_checkpoint, lines 201-221, up to open(LOG_FILE, 'w'), which leaves an
\* empty file; json.dump fills it in the step WriteLog.
save_checkpoint(ld, force, is_final, writing, skipped) ==
    IF should_save(ld, force, is_final)
    THEN /\ IF needs_backup
            THEN /\ has_backup' = TRUE
                 /\ IF logFile.kind # "absent"
                    THEN bakFile' = logFile /\ bakWrites' = bakWrites + 1
                    ELSE UNCHANGED << bakFile, bakWrites >>
            ELSE UNCHANGED << has_backup, bakFile, bakWrites >>
         /\ logFile' = Garbage
         /\ writes' = Append(writes, [ final |-> is_final, forced |-> force,
                                       count |-> downloaded_count(ld) ])
         /\ pc' = writing
    ELSE /\ UNCHANGED << has_backup, bakFile, bakWrites, logFile, writes >>
         /\ pc' = skipped

\* get_qualified_messages, lines 428-438: the source is exhausted, or the
\* loop was left at the --limit test.
ScanComplete ==
    /\ pc = "scan_end" \/ (pc = "scan" /\ Remaining = {})
    /\ log_data' = [ log_data EXCEPT !.last_scan_time = run ]
    /\ save_checkpoint(log_data', FALSE, FALSE, "scan_write", "scanned")
    /\ UNCHANGED << args, source, disk, run, qualified, cursor, idx, attempt,
                    inFlight, successful_downloads, failed_downloads,
                    attempted_downloads, tries, classified, startLog,
                    committed, prevClean, faults, faulted,
                    sleeping, now, journal, lookups, min_id, notBefore, raised,
                    startDisk,
                    lastError >>

\* save_checkpoint, line 222: json.dump completes and the file is closed.
WriteLog ==
    /\ pc \in { "scan_write", "final_write" }
    /\ logFile' = StateFile(log_data)
    /\ committed' = logFile'
    /\ pc' = IF pc = "scan_write" THEN "scanned" ELSE "user"
    /\ UNCHANGED << args, source, bakFile, disk, run, log_data, qualified,
                    cursor, has_backup, idx, attempt, inFlight,
                    successful_downloads, failed_downloads,
                    attempted_downloads, tries, classified, writes,
                    bakWrites, startLog, prevClean, faults, faulted,
                    sleeping, now, journal, lookups, min_id, notBefore, raised,
                    startDisk,
                    lastError >>

\* The process stops, or json.dump raises, between open() and the end of the
\* dump: the file stays as open() left it.
StopWhileWriting ==
    /\ pc \in { "scan_write", "final_write" }
    /\ faults < MaxFaults
    /\ faults' = faults + 1
    /\ pc' = "crashed"
    /\ UNCHANGED << args, source, logFile, bakFile, disk, run, log_data,
                    qualified, cursor, has_backup, idx, attempt, inFlight,
                    successful_downloads, failed_downloads,
                    attempted_downloads, tries, classified, writes,
                    bakWrites, startLog, committed, prevClean, faulted,
                    sleeping, now, journal, lookups, min_id, notBefore, raised,
                    startDisk,
                    lastError >>

\* ------------------------------------------------------------ the downloads
\* The --dry-run test left out.
dry_run_ignored == FALSE

\* download_reacted_media, line 516.
dry_run_returns == args.dry_run

\* download_reacted_media, lines 516-555: after the scan.  A dry run returns;
\* --verify-only calls verify_downloads, a name the module does not define;
\* otherwise the user is resolved once more (outside any try block) and the
\* batch loop is entered.
Dispatch ==
    /\ pc = "scanned"
    /\ IF dry_run_returns
       THEN /\ pc' = "done"
            /\ UNCHANGED << raised, idx >>
       ELSE IF args.verify_only
       THEN /\ pc' = "aborted"
            /\ raised' = "NameError"
            /\ UNCHANGED idx
       ELSE IF user_given /\ ~user_resolves
       THEN /\ pc' = "aborted"
            /\ raised' = "UserNotFound"
            /\ UNCHANGED idx
       ELSE /\ pc' = IF qualified.all_reactions # << >>
                     THEN "batch" ELSE "download"
            /\ idx' = 1
            /\ UNCHANGED raised
    /\ UNCHANGED << args, source, logFile, bakFile, disk, run, log_data,
                    qualified, cursor, has_backup, attempt, inFlight,
                    successful_downloads, failed_downloads,
                    attempted_downloads, tries, classified, writes,
                    bakWrites, startLog, committed, prevClean, faults, faulted,
                    sleeping, now, journal, lookups, min_id, notBefore,
                    startDisk,
                    lastError >>

\* download_reacted_media, lines 556-560: get_messages_batch for the batch
\* (BATCH_SIZE is larger than any list of the model, so there is one batch).
\* The call is made outside the try block of the loop: when it raises, the
\* exception leaves download_reacted_media.
GetBatch(found) ==
    /\ pc = "batch"
    /\ lookups' = lookups + 1
    /\ IF found
       THEN /\ pc' = "download"
            /\ UNCHANGED << faults, raised >>
       ELSE /\ faults < MaxFaults
            /\ faults' = faults + 1
            /\ pc' = "aborted"
            /\ raised' = "RetrievalError"
    /\ UNCHANGED << args, source, logFile, bakFile, disk, run, log_data,
                    qualified, cursor, has_backup, idx, attempt, inFlight,
                    successful_downloads, failed_downloads,
                    attempted_downloads, tries, classified, writes,
                    bakWrites, startLog, committed, prevClean, faulted,
                    sleeping, now, journal, min_id, notBefore, startDisk,
                    lastError >>

InUserLoop == pc \in { "user", "user_fetch", "user_backoff" }

\* The list the driver is walking, the entry it is at and its target path.
CurrentList == IF InUserLoop THEN qualified.user_interactions
               ELSE qualified.all_reactions
CurrentId   == CurrentList[idx]
CurrentMsg  == log_data.messages[CurrentId]
CurrentPath == Path(IF InUserLoop THEN UserDir ELSE AllReactionsDir, CurrentMsg)

\* The journal entry of the current entry: how it ended ("skipped", "fetched",
\* "copied", "failed").
Entry(how) ==
    [ cat |-> IF InUserLoop THEN "user" ELSE "all", id |-> CurrentId,
      how |-> how ]

\* download_media_with_retry, line 473: the semaphore lets the caller in.
gate_open == Cardinality(inFlight) < MAX_CONCURRENT_DOWNLOADS

\* DownloadNext with every fetch started as a task of its own, neither awaited
\* nor passed through the semaphore.
DownloadNextUnawaited ==
    /\ pc = "download"
    /\ idx <= Len(qualified.all_reactions)
    /\ IF disk[CurrentPath] > 0 /\ ~args.force_redownload
       THEN /\ successful_downloads' = Append(successful_downloads, CurrentId)
            /\ journal' = Append(journal, Entry("skipped"))
            /\ UNCHANGED inFlight
       ELSE /\ inFlight' = inFlight \cup { CurrentId }
            /\ UNCHANGED << successful_downloads, journal >>
    /\ idx' = idx + 1
    /\ lastError' = "none"
    /\ now' = 0
    /\ notBefore' = 0
    /\ UNCHANGED << args, source, logFile, bakFile, disk, run, pc, log_data,
                    qualified, cursor, has_backup, attempt, failed_downloads,
                    attempted_downloads, tries, classified, writes,
                    bakWrites, startLog, committed, prevClean, faults, faulted,
                    sleeping, lookups, min_id, raised, startDisk >>

\* download_reacted_media, lines 563-582: the next entry of all_reactions.
\* The driver awaits download_media_with_retry before it takes another entry.
DownloadNext ==
    /\ pc = "download"
    /\ idx <= Len(qualified.all_reactions)
    /\ IF disk[CurrentPath] > 0 /\ ~args.force_redownload
       THEN /\ successful_downloads' = Append(successful_downloads, CurrentId)
            /\ journal' = Append(journal, Entry("skipped"))
            /\ idx' = idx + 1
            /\ UNCHANGED << pc, attempt, inFlight >>
       ELSE /\ gate_open
            /\ inFlight' = inFlight \cup { CurrentId }
            /\ attempt' = 0
            /\ pc' = "fetch"
            /\ UNCHANGED << successful_downloads, idx, journal >>
    /\ lastError' = "none"
    /\ now' = 0
    /\ notBefore' = 0
    /\ UNCHANGED << args, source, logFile, bakFile, disk, run, log_data,
                    qualified, cursor, has_backup, failed_downloads,
                    attempted_downloads, tries, classified, writes,
                    bakWrites, startLog, committed, prevClean, faults, faulted,
                    sleeping, lookups, min_id, raised, startDisk >>

\* The driver is back in its loop, after the with-block released the gate.
BackInLoop == IF pc = "fetch" THEN "download" ELSE "user"

\* download_reacted_media, lines 527-529: the total the ProgressTracker is
\* built with.
progress_total == Len(qualified.all_reactions)

\* ProgressTracker.update, line 454: completed / total raises
\* ZeroDivisionError for a total of 0.
progress_update_raises == progress_total = 0

\* lines 584-608 (654-675): the fetch returned a path.  written is the size
\* os.path.getsize finds (0: there is no file and it raises), left is the size
\* of the file once the run is over.  progress.update() is called between the
\* append to attempted_downloads and the append to successful_downloads.
Fetched(written, left) ==
    /\ disk' = [ disk EXCEPT ![CurrentPath] = left ]
    /\ IF written > 0
       THEN /\ attempted_downloads' = Append(attempted_downloads,
                  [ id |-> CurrentId, path |-> CurrentPath,
                    expected_size |-> written ])
            /\ IF progress_update_raises
               THEN /\ failed_downloads' = Append(failed_downloads, CurrentId)
                    /\ journal' = Append(journal, Entry("failed"))
                    /\ lastError' = "ZeroDivisionError"
                    /\ UNCHANGED successful_downloads
               ELSE /\ successful_downloads' =
                           Append(successful_downloads, CurrentId)
                    /\ journal' = Append(journal, Entry("fetched"))
                    /\ lastError' = "none"
                    /\ UNCHANGED failed_downloads
       ELSE /\ failed_downloads' = Append(failed_downloads, CurrentId)
            /\ journal' = Append(journal, Entry("failed"))
            /\ lastError' = "getsize"
            /\ UNCHANGED << attempted_downloads, successful_downloads >>
    /\ inFlight' = inFlight \ { CurrentId }
    /\ idx' = idx + 1
    /\ pc' = BackInLoop
    /\ attempt' = 0
    /\ UNCHANGED << sleeping, now, notBefore >>

\* lines 610-616 (677-683): the item failed with the given error.
GaveUp(error) ==
    /\ failed_downloads' = Append(failed_downloads, CurrentId)
    /\ journal' = Append(journal, Entry("failed"))
    /\ lastError' = error
    /\ inFlight' = inFlight \ { CurrentId }
    /\ idx' = idx + 1
    /\ pc' = BackInLoop
    /\ attempt' = 0
    /\ UNCHANGED << disk, attempted_downloads, successful_downloads, sleeping,
                    now, notBefore >>

\* attempts_remain with the test made against max_retries itself.
attempts_remain_one_more == attempt < args.max_retries

\* download_media_with_retry, lines 474, 479 and 487: the attempt made was not
\* the last one of range(max_retries).
attempts_remain == attempt < args.max_retries - 1

\* asyncio.sleep(1) whatever the FloodWaitError says.
flood_sleep_fixed(seconds) == 1

\* download_media_with_retry, lines 480-482: the sleep after a FloodWaitError.
flood_sleep(seconds) == seconds

\* download_media_with_retry, lines 474-492: one attempt.  The outcomes of
\* client.download_media: "ok" (a path, the file is written), "shrunk" (the
\* same, but the file is shortened after its size was taken), "lost" (a path,
\* but no file at the target path), "none" (no result), "flood"
\* (FloodWaitError), "error" (any other exception).  The attempts of one call
\* that go wrong go wrong in the same way.
Outcomes == { "ok", "shrunk", "lost", "none", "flood", "error" }

Attempt(outcome) ==
    /\ pc \in { "fetch", "user_fetch" }
    /\ tries' = [ tries EXCEPT ![CurrentId] = @ + 1 ]
    /\ IF outcome = "ok" \/ outcome = faulted
       THEN UNCHANGED faults
       ELSE faulted = "no" /\ faults < MaxFaults /\ faults' = faults + 1
    /\ CASE outcome = "ok" -> Fetched(FullSize, FullSize) /\ faulted' = "no"
         [] outcome = "shrunk" -> Fetched(FullSize, ShortSize) /\ faulted' = "no"
         [] outcome = "lost" -> Fetched(0, 0) /\ faulted' = "no"
         [] outcome = "none" ->
              IF attempts_remain
              THEN /\ attempt' = attempt + 1
                   /\ faulted' = outcome
                   /\ UNCHANGED << disk, attempted_downloads,
                                   successful_downloads, failed_downloads,
                                   inFlight, idx, pc, journal, sleeping, now,
                                   notBefore, lastError >>
              ELSE GaveUp(outcome) /\ faulted' = "no"
         [] OTHER ->
              IF attempts_remain
              THEN /\ pc' = IF pc = "fetch" THEN "backoff" ELSE "user_backoff"
                   /\ faulted' = outcome
                   /\ sleeping' = IF outcome = "flood"
                                  THEN flood_sleep(FloodWait) ELSE 1
                   /\ notBefore' = IF outcome = "flood"
                                   THEN now + FloodWait ELSE notBefore
                   /\ UNCHANGED << disk, attempted_downloads,
                                   successful_downloads, failed_downloads,
                                   inFlight, idx, attempt, journal, now,
                                   lastError >>
              ELSE GaveUp(outcome) /\ faulted' = "no"
    /\ UNCHANGED << args, source, logFile, bakFile, run, log_data, qualified,
                    cursor, has_backup, classified, writes, bakWrites,
                    startLog, committed, prevClean, lookups, min_id, raised,
                    startDisk >>

\* download_media_with_retry, lines 481-484 and 488-490: the sleep is over.
Backoff ==
    /\ pc \in { "backoff", "user_backoff" }
    /\ attempt' = attempt + 1
    /\ now' = now + sleeping
    /\ sleeping' = 0
    /\ pc' = IF pc = "backoff" THEN "fetch" ELSE "user_fetch"
    /\ UNCHANGED << args, source, logFile, bakFile, disk, run, log_data,
                    qualified, cursor, has_backup, idx, inFlight,
                    successful_downloads, failed_downloads,
                    attempted_downloads, tries, classified, writes,
                    bakWrites, startLog, committed, prevClean, faults, faulted,
                    journal, lookups, min_id, notBefore, raised, startDisk,
                    lastError >>

\* download_reacted_media, lines 618-621: the final save.
DownloadsComplete ==
    /\ pc = "download"
    /\ idx > Len(qualified.all_reactions)
    /\ save_checkpoint(log_data, FALSE, TRUE, "final_write", "user")
    /\ idx' = 1
    /\ lastError' = "none"
    /\ now' = 0
    /\ notBefore' = 0
    /\ UNCHANGED << args, source, disk, run, log_data, qualified, cursor,
                    attempt, inFlight, successful_downloads, failed_downloads,
                    attempted_downloads, tries, classified, startLog,
                    committed, prevClean, faults, faulted,
                    sleeping, journal, lookups, min_id, raised,
                    startDisk >>

\* The file is never found in all_reactions.
in_all_reactions_never == FALSE

\* download_reacted_media, lines 627-631: os.path.exists(src_path) for the
\* current entry of user_interactions.
in_all_reactions == disk[Path(AllReactionsDir, CurrentMsg)] > 0

\* download_reacted_media, lines 624-649: the next entry of user_interactions.
\* The file is copied from all_reactions when it is there; otherwise the
\* message is looked up by id (found tells whether client.get_messages returns
\* it) and fetched.
UserNext(found) ==
    /\ pc = "user"
    /\ idx <= Len(qualified.user_interactions)
    /\ LET src_path == Path(AllReactionsDir, CurrentMsg) IN
       IF in_all_reactions
       THEN /\ found
            /\ disk' = [ disk EXCEPT ![CurrentPath] = disk[src_path] ]
            /\ journal' = Append(journal, Entry("copied"))
            /\ idx' = idx + 1
            /\ lastError' = "none"
            /\ UNCHANGED << pc, attempt, inFlight, lookups, faults,
                            failed_downloads >>
       ELSE /\ lookups' = lookups + 1
            /\ IF found
               THEN /\ gate_open
                    /\ inFlight' = inFlight \cup { CurrentId }
                    /\ attempt' = 0
                    /\ pc' = "user_fetch"
                    /\ lastError' = "none"
                    /\ UNCHANGED << disk, idx, journal, faults,
                                    failed_downloads >>
               ELSE /\ faults < MaxFaults
                    /\ faults' = faults + 1
                    /\ failed_downloads' = Append(failed_downloads, CurrentId)
                    /\ journal' = Append(journal, Entry("failed"))
                    /\ lastError' = "lookup"
                    /\ idx' = idx + 1
                    /\ UNCHANGED << disk, pc, attempt, inFlight >>
    /\ now' = 0
    /\ notBefore' = 0
    /\ UNCHANGED << args, source, logFile, bakFile, run, log_data, qualified,
                    cursor, has_backup, successful_downloads,
                    attempted_downloads, tries, classified, writes,
                    bakWrites, startLog, committed, prevClean, faulted,
                    sleeping, min_id, raised, startDisk >>

\* download_reacted_media, line 685: the run returns.
Return ==
    /\ pc = "user"
    /\ idx > Len(qualified.user_interactions)
    /\ pc' = "done"
    /\ lastError' = "none"
    /\ now' = 0
    /\ notBefore' = 0
    /\ UNCHANGED << args, source, logFile, bakFile, disk, run, log_data,
                    qualified, cursor, has_backup, idx, attempt, inFlight,
                    successful_downloads, failed_downloads,
                    attempted_downloads, tries, classified, writes,
                    bakWrites, startLog, committed, prevClean, faults, faulted,
                    sleeping, journal, lookups, min_id, raised,
                    startDisk >>

\* --------------------------------------------------------- the environment
\* The next process is started with the same command line.
Restart ==
    /\ pc \in { "done", "crashed", "aborted" }
    /\ run < MaxRuns
    /\ run' = run + 1
    /\ pc' = "start"
    /\ prevClean' = (pc = "done" /\ failed_downloads = << >>)
    /\ startLog' = logFile
    /\ committed' = logFile
    /\ log_data' = EmptyLog
    /\ qualified' = NoQualified
    /\ cursor' = 0
    /\ has_backup' = FALSE
    /\ idx' = 0
    /\ attempt' = 0
    /\ inFlight' = {}
    /\ successful_downloads' = << >>
    /\ failed_downloads' = << >>
    /\ attempted_downloads' = << >>
    /\ tries' = [ j \in DOMAIN source |-> 0 ]
    /\ classified' = {}
    /\ writes' = << >>
    /\ bakWrites' = 0
    /\ faulted' = "no"
    /\ sleeping' = 0
    /\ now' = 0
    /\ journal' = << >>
    /\ lookups' = 0
    /\ min_id' = None
    /\ notBefore' = 0
    /\ raised' = "none"
    /\ startDisk' = disk
    /\ lastError' = "none"
    /\ UNCHANGED << args, source, logFile, bakFile, disk, faults >>

Next ==
    \/ LoadAndRequalify
    \/ ScanMessage
    \/ ScanComplete
    \/ WriteLog
    \/ StopWhileWriting
    \/ Dispatch
    \/ \E found \in BOOLEAN : GetBatch(found)
    \/ DownloadNext
    \/ \E outcome \in Outcomes : Attempt(outcome)
    \/ Backoff
    \/ DownloadsComplete
    \/ \E found \in BOOLEAN : UserNext(found)
    \/ Return
    \/ Restart

Spec == Init /\ [][Next]_vars

TypeOK ==
    /\ pc \in { "start", "scan", "scan_end", "scan_write", "scanned", "batch",
                "download", "fetch", "backoff", "final_write", "user",
                "user_fetch", "user_backoff", "done", "crashed", "aborted" }
    /\ raised \in { "none", "KeyError", "UserNotFound", "RetrievalError",
                   "NameError" }
    /\ (pc = "aborted") = (raised # "none")

\* ================================================================== claims
\* client.download_media calls issued by this run.
fetches == SumFn(tries)

\* The LogState the current process loaded.
Loaded == load_log_file(startLog)

DownloadedIds(ld) == { k \in DOMAIN ld.messages : get_downloaded(ld.messages[k]) }

\* C1: idempotence.  A second run over the same source, without
\* force-redownload, after a run in which every fetch succeeded, issues no
\* media fetch, whatever the category options are.
C1_SecondRunFetchesNothing ==
    (run > 1 /\ prevClean /\ args \in CategoryArgs /\ ~args.force_redownload)
        => fetches = 0

\* C2: resumability.  Without force-redownload the scan never takes from the
\* message source a message whose id is at most the last successful id of the
\* LogState it loaded.
C2_NoReclassificationBelowResumePoint ==
    (~args.force_redownload /\ pc # "start")
        => \A id \in classified : id > Loaded.last_successful_id

C2_Witness ==
    /\ ~args.force_redownload
    /\ Loaded.last_successful_id >= 1
    /\ Loaded.last_successful_id = SetMax(DownloadedIds(Loaded))
    /\ classified # {}
    /\ pc = "done"

\* C3: every LogState a checkpoint has written to the log file has
\* last_successful_id equal to the largest id among its downloaded records,
\* or None when it has no downloaded record.
LastSuccessfulIsMax(ld) ==
    ld.last_successful_id = IF DownloadedIds(ld) = {} THEN None
                            ELSE SetMax(DownloadedIds(ld))

C3_PersistedLastSuccessfulIsMax ==
    (writes # << >> /\ logFile.kind = "state") => LastSuccessfulIsMax(logFile.data)

C3_Witness ==
    /\ writes # << >>
    /\ logFile.kind = "state"
    /\ logFile.data.last_successful_id >= 1
    /\ classified \cap DOMAIN logFile.data.messages # {}
    /\ successful_downloads # << >>
    /\ pc = "done"

\* C4: at the end of a run, every message whose media was fetched and whose
\* file has the size recorded at download time is marked downloaded in the
\* LogState, and last_successful_id is at least its id.
C4_VerifiedFetchIsMarkedDownloaded ==
    pc = "done" =>
        \A k \in 1..Len(attempted_downloads) :
            LET a == attempted_downloads[k] IN
            disk[a.path] = a.expected_size
                => /\ log_data.messages[a.id].downloaded
                   /\ log_data.last_successful_id >= a.id

\* C5: at the end of a run, a fetched file whose size differs from the size
\* expected by its download attempt (or that is missing) has been deleted, its
\* message is in failed, and its record is not marked downloaded.
C5_MismatchIsDeletedAndFailed ==
    pc = "done" =>
        \A k \in 1..Len(attempted_downloads) :
            LET a == attempted_downloads[k] IN
            disk[a.path] # a.expected_size
                => /\ disk[a.path] = 0
                   /\ a.id \in Range(failed_downloads)
                   /\ ~log_data.messages[a.id].downloaded

\* C6: the number of fetch operations inside the gated section never exceeds
\* MAX_CONCURRENT_DOWNLOADS, however many messages are qualified.
C6_ConcurrencyBound == Cardinality(inFlight) <= MAX_CONCURRENT_DOWNLOADS

C6_Witness ==
    /\ Len(qualified.all_reactions) > MAX_CONCURRENT_DOWNLOADS
    /\ idx > MAX_CONCURRENT_DOWNLOADS
    /\ inFlight # {}

\* C7: the log file is written only at a final save, at a forced save, or when
\* the number of downloaded records is a positive multiple of the interval;
\* and a finished run has made exactly one final save.
C7_CheckpointCadence ==
    /\ \A k \in 1..Len(writes) :
          \/ writes[k].final
          \/ writes[k].forced
          \/ /\ writes[k].count > 0
             /\ writes[k].count % CHECKPOINT_INTERVAL = 0
    /\ pc = "done" =>
          Cardinality({ k \in 1..Len(writes) : writes[k].final }) = 1

\* C8: when the process stops during save_checkpoint, the log file holds the
\* complete LogState that was committed before.
C8_WriteIsAllOrNothing ==
    (pc = "crashed" /\ committed.kind = "state") => logFile = committed

\* C9: a process writes the .bak file at most once, not later than its first
\* write of the log file, and from then on the .bak file holds what the log
\* file held when the process started (if it existed then).
C9_SingleBackupOfStartContent ==
    /\ bakWrites <= 1
    /\ bakWrites = 1 => bakFile = startLog
    /\ startLog.kind = "absent" => bakWrites = 0
    /\ (writes # << >> /\ startLog.kind # "absent")
          => (bakWrites = 1 /\ bakFile = startLog)

C9_Witness ==
    /\ Len(writes) >= 2
    /\ startLog.kind = "state"
    /\ bakFile = startLog
    /\ logFile.kind = "state"
    /\ logFile # startLog
    /\ pc = "done"

\* C10: when the log file is absent or malformed, the process loads a fresh
\* empty LogState and goes on with the scan instead of aborting.
Malformed(f) ==
    \/ f.kind \in { "absent", "garbage", "shape" }
    \/ /\ f.kind = "state"
       /\ \E k \in DOMAIN f.data.messages :
             "has_reactions" \notin DOMAIN f.data.messages[k]

C10_MalformedLogStartsFresh ==
    (Malformed(startLog) /\ pc # "start")
        => /\ pc # "aborted"
           /\ DOMAIN log_data.messages \subseteq classified
           /\ log_data.last_successful_id = None

\* The entries of the journal that ended as how, and those of message id.
Ended(how) == { k \in 1..Len(journal) : journal[k].how = how }
EntriesOf(id) == { k \in 1..Len(journal) : journal[k].id = id }
LastEntry == journal[Len(journal)]
InCall == pc \in { "fetch", "backoff", "user_fetch", "user_backoff" }

\* What C11 and its original statement share: every failed entry added one
\* element to failed; an entry that gave up on a FloodWaitError is the last
\* element of failed and the loop goes on behind it; a run that returns has
\* handled every entry of both lists.
FailureStaysWithItsEntry ==
    /\ Len(failed_downloads) = Cardinality(Ended("failed"))
    /\ lastError = "flood"
          => /\ LastEntry.how = "failed"
             /\ failed_downloads[Len(failed_downloads)] = LastEntry.id
             /\ pc \in { "download", "user" }
             /\ idx = IF pc = "user"
                      THEN Len(journal) - Len(qualified.all_reactions) + 1
                      ELSE Len(journal) + 1
    /\ (pc = "done" /\ ~args.dry_run)
          => Len(journal) = Len(qualified.all_reactions)
                            + Len(qualified.user_interactions)

\* C11 as stated: no message is fetched more than max_retries times in a run;
\* a message whose attempts are all answered by a FloodWaitError is added to
\* failed once, and the remaining entries are still handled.
C11_AttemptsPerMessage ==
    /\ \A id \in DOMAIN tries : tries[id] <= args.max_retries
    /\ FailureStaysWithItsEntry

\* C11: one call of download_media_with_retry, that is one entry of a
\* category list, makes at most max_retries attempts; an entry whose attempts
\* are all answered by a FloodWaitError is added to failed once, and the
\* remaining entries are still handled.
C11_AttemptsPerCall ==
    /\ InCall => attempt < args.max_retries
    /\ FailureStaysWithItsEntry

C11_Witness ==
    /\ lastError = "flood"
    /\ pc = "download"
    /\ idx <= Len(qualified.all_reactions)
    /\ tries[LastEntry.id] = args.max_retries
    /\ LastEntry.id \in Range(failed_downloads)

C13_ItemErrorsStayInside ==
    /\ raised # "RetrievalError"
    /\ lastError = "lookup" => LastEntry.id \in Range(failed_downloads)

\* C14: when the user of the filter cannot be resolved, the run is not
\* aborted, and once the scan is over it has walked the source from the resume
\* point, qualified the engagement messages, qualified nothing as a user
\* interaction and stamped last_scan_time.
AfterScan == pc \notin { "start", "scan", "scan_end" }

C14_UnresolvedUserDegrades ==
    (user_given /\ ~user_resolves /\ AfterScan)
        => /\ pc # "aborted"
           /\ min_id # None
           /\ \A j \in DOMAIN source :
                 (j > min_id /\ Qualifies(source[j]) /\ ~args.skip_all_reactions)
                     => j \in Range(qualified.all_reactions)
           /\ qualified.user_interactions = << >>
           /\ log_data.last_scan_time = run

\* C15: with --limit N the scan classifies no message of the source once the
\* entries of both category lists, those re-qualified from the log included,
\* number N or more: every message the scan added to the log had fewer than N
\* entries before it.
EntriesBelow(id) ==
    Cardinality({ k \in 1..Len(qualified.all_reactions) :
                     qualified.all_reactions[k] < id })
    + Cardinality({ k \in 1..Len(qualified.user_interactions) :
                       qualified.user_interactions[k] < id })

C15_ScanStopsAtLimit ==
    (args.limit > 0 /\ min_id # None)
        => \A id \in DOMAIN log_data.messages :
              id > min_id => EntriesBelow(id) < args.limit

\* C16: with --limit N a run downloads (fetches or copies) at most N media
\* items.
C16_AtMostLimitDownloads ==
    args.limit > 0
        => Cardinality(Ended("fetched") \cup Ended("copied")) <= args.limit

\* C17: a dry run fetches no media, retrieves no message by id, creates or
\* copies no file in a download directory and returns empty results.
C17_DryRunHasNoEffects ==
    args.dry_run
        => /\ fetches = 0
           /\ lookups = 0
           /\ disk = startDisk
           /\ journal = << >>
           /\ successful_downloads = << >>
           /\ failed_downloads = << >>
           /\ attempted_downloads = << >>

C17_Witness ==
    /\ args.dry_run
    /\ pc = "done"
    /\ qualified.all_reactions # << >>
    /\ qualified.user_interactions # << >>
    /\ \E p \in DOMAIN disk : disk[p] = 0
    /\ lookups = 0

\* What C18 and its original statement share: with --force-redownload the
\* records the log holds as downloaded are qualified again, and no entry of
\* all_reactions is skipped because its file exists.
ForceRequalifiesAndRefetches ==
    /\ \A k \in DownloadedIds(Loaded) :
          /\ (Loaded.messages[k].has_reactions /\ ~args.skip_all_reactions)
                => k \in Range(qualified.all_reactions)
          /\ (args.filter = "replied_to"
                /\ Loaded.messages[k].reply_user_id = TargetUserId)
                => k \in Range(qualified.user_interactions)
    /\ Ended("skipped") = {}

\* C18 as stated: with --force-redownload the scan asks the source for its
\* messages without a lower bound derived from the log, the downloaded
\* records are qualified again and existing files are fetched again.
C18_ForceIgnoresResumePoint ==
    (args.force_redownload /\ min_id # None)
        => /\ min_id = 0
           /\ ForceRequalifiesAndRefetches

\* C18: with --force-redownload the scan still asks the source only for the
\* messages above the largest id of the log; the records the log holds as
\* downloaded are qualified again from the log, and existing files are
\* fetched again.
C18_ForceRequalifiesFromLog ==
    (args.force_redownload /\ min_id # None)
        => /\ min_id = SetMax(DOMAIN Loaded.messages)
           /\ ForceRequalifiesAndRefetches

C18_Witness ==
    /\ args.force_redownload
    /\ min_id >= 1
    /\ \E k \in Ended("fetched") :
          /\ journal[k].cat = "all"
          /\ journal[k].id \in DownloadedIds(Loaded)
          /\ startDisk[Path(AllReactionsDir, Loaded.messages[journal[k].id])] > 0

\* C19: without --force-redownload the lower bound given to the source is the
\* largest id among the records the log holds as downloaded (0 without any),
\* or the value of --resume-from when it is given, and the source yields only
\* ids above that bound.
C19_LowerBoundOfTheScan ==
    (~args.force_redownload /\ min_id # None)
        => /\ min_id = IF args.resume_from > 0 THEN args.resume_from
                       ELSE SetMax(DownloadedIds(Loaded))
           /\ \A id \in classified : id > min_id

\* C20: without --force-redownload a record the loaded log holds as
\* downloaded stays as it is, in memory and in every log file the process
\* writes: it is neither removed nor replaced by a fresh classification.
C20_DownloadedRecordsKept ==
    (~args.force_redownload /\ pc # "start")
        => \A k \in DownloadedIds(Loaded) :
              /\ k \in DOMAIN log_data.messages
              /\ log_data.messages[k] = Loaded.messages[k]
              /\ (writes # << >> /\ logFile.kind = "state")
                    => /\ k \in DOMAIN logFile.data.messages
                       /\ logFile.data.messages[k] = Loaded.messages[k]

C20_Witness ==
    /\ ~args.force_redownload
    /\ DownloadedIds(Loaded) # {}
    /\ classified \cap DOMAIN log_data.messages # {}
    /\ Ended("fetched") # {}
    /\ writes # << >>
    /\ logFile.kind = "state"
    /\ pc = "done"

\* The records the scan of this run created.
ScanRecords == classified \cap DOMAIN log_data.messages

\* The scan went through the whole source for the resolved target user.
FullScan ==
    /\ pc = "scanned"
    /\ user_given /\ user_resolves
    /\ args.limit = 0
    /\ min_id # None

\* C21: eligibility.  Under the replied-to filter, every photo the scan read
\* that replies to the tracked user is recorded and placed in the
\* user-interaction category, with or without reactions.
C21_RepliesQualifyWithoutReactions ==
    (FullScan /\ args.filter = "replied_to")
        => \A id \in classified :
              (source[id].photo /\ source[id].reply_to_target)
                  => /\ id \in DOMAIN log_data.messages
                     /\ id \in Range(qualified.user_interactions)

\* C22: every record the scan creates has total_reactions equal to the sum of
\* the counts of its reactions, has_reactions true exactly when it lists a
\* reaction, and downloaded false; every record of the engagement category
\* has has_reactions true.
C22_ScanRecordsAreConsistent ==
    /\ \A id \in ScanRecords :
          LET r == log_data.messages[id] IN
          /\ r.total_reactions = SumSeq(r.reactions)
          /\ r.has_reactions = (r.reactions # << >>)
          /\ r.downloaded = FALSE
    /\ \A k \in DOMAIN qualified.all_reactions :
          log_data.messages[qualified.all_reactions[k]].has_reactions

\* The scan recorded a message without any reaction count next to one with
\* counts, and the latter is in the engagement category.
C22_Witness ==
    /\ pc = "scanned"
    /\ \E id \in ScanRecords : ~log_data.messages[id].has_reactions
    /\ \E id \in ScanRecords :
          /\ log_data.messages[id].total_reactions = 3
          /\ id \in Range(qualified.all_reactions)

\* C23: a run with --verify-only fetches no media and completes by returning
\* a result: it does not end in the error of an undefined name.
C23_VerifyOnlyReturns ==
    args.verify_only => (fetches = 0 /\ raised # "NameError")

\* C24: a fetch that finds no media is not retried: the call that made it does
\* not go on to another attempt.
C24_NotFoundIsNotRetried ==
    pc \in { "fetch", "user_fetch" } => faulted # "none"

\* The file of a record in the engagement directory and in the user directory.
EngagementFile(id) == disk[Path(AllReactionsDir, log_data.messages[id])]
UserFile(id) == disk[Path(UserDir, log_data.messages[id])]

\* The entries of the user-interaction list that were handled so far.
UserEntries == { k \in 1..Len(journal) : journal[k].cat = "user" }

\* C25: cross-category reuse.  An entry of the user-interaction list whose
\* file is in the engagement directory is satisfied by a copy of that file:
\* no media fetch is made for it and the message is not retrieved by id.
C25_CrossCategoryReuse ==
    /\ pc \in { "user_fetch", "user_backoff" } => EngagementFile(CurrentId) = 0
    /\ \A k \in UserEntries :
          /\ (journal[k].how = "copied") = (EngagementFile(journal[k].id) > 0)
          /\ journal[k].how = "copied"
                => UserFile(journal[k].id) = EngagementFile(journal[k].id)
    /\ (pc = "done" /\ ~args.dry_run) =>
          lookups = (IF qualified.all_reactions # << >> THEN 1 ELSE 0)
                    + Cardinality({ k \in UserEntries :
                                       journal[k].how # "copied" })

\* A run ended in which one entry of the user-interaction list was copied
\* from the engagement directory and another one, whose file was not there,
\* was fetched.
C25_Witness ==
    /\ pc = "done"
    /\ \E k \in UserEntries : journal[k].how = "copied"
    /\ \E k \in UserEntries : journal[k].how = "fetched"

\* C26: while the fetch of one message of a batch sleeps before its next
\* attempt, the fetch of another message of the batch can start.
C26_SleepDoesNotBlockTheBatch ==
    (pc = "backoff" /\ idx < Len(qualified.all_reactions))
        => ENABLED DownloadNext

\* C27: progress reporting has no effect on the outcome: every fetch whose
\* file was written and measured is reported as succeeded, and no entry fails
\* with the error of the progress computation.
C27_ProgressReportingIsInert ==
    /\ lastError # "ZeroDivisionError"
    /\ \A k \in DOMAIN attempted_downloads :
          attempted_downloads[k].id \in Range(successful_downloads)

\* The interval --checkpoint-interval asks for.
requested_interval ==
    IF args.checkpoint_interval = 0 THEN 10 ELSE args.checkpoint_interval

\* C28: the checkpoint at the end of the scan (not forced, not final) writes
\* the log exactly when the number of downloaded records is a multiple of the
\* interval the command line asks for.
C28_CheckpointFollowsTheOption ==
    (pc = "scanned" /\ min_id # None)
        => ((\E k \in DOMAIN writes : ~writes[k].final /\ ~writes[k].forced)
               <=> downloaded_count(log_data) % requested_interval = 0)

\* C29: when a run that downloads returns, every entry of both qualified
\* lists was reported once, as succeeded or as failed.
C29_EveryEntryIsReported ==
    (pc = "done" /\ ~args.dry_run)
        => Len(successful_downloads) + Len(failed_downloads)
              = Len(qualified.all_reactions)
                + Len(qualified.user_interactions)

\* The ids of the qualified records.
QualifiedIds ==
    Range(qualified.all_reactions) \cup Range(qualified.user_interactions)

\* C30: two qualified records with different ids never share a target file
\* name, so that a file found at the target path is the media of the record.
C30_TargetPathsAreDistinct ==
    \A i, j \in QualifiedIds :
        i # j => log_data.messages[i].base_filename
                    # log_data.messages[j].base_filename

\* The categories the scan assigns to the message of the given id when it
\* reads it from the source.
FreshAllReactions(id) ==
    /\ Qualifies(source[id])
    /\ msg_info(id, source[id]).has_reactions
    /\ ~args.skip_all_reactions
FreshUserInteraction(id) ==
    Qualifies(source[id]) /\ is_user_interaction(source[id])

\* C31: a record the log holds as not yet downloaded is re-qualified into the
\* categories the scan assigns to its message when it reads it from the
\* source under the same options.
C31_CachedAssignmentMatchesFresh ==
    (min_id # None /\ pc # "start")
        => \A id \in DOMAIN Loaded.messages :
              ~get_downloaded(Loaded.messages[id])
                  => /\ (id \in Range(qualified.all_reactions))
                            = FreshAllReactions(id)
                     /\ (id \in Range(qualified.user_interactions))
                            = FreshUserInteraction(id)

====
